---- MODULE Spec2Model ----
(***************************************************************************)
(* A model of fowl (src/fowl/__init__.py): the GraphQL request builder,    *)
(* the tweet and timeline decoders and the ClientSession bootstrap.        *)
(*                                                                         *)
(* JSON objects are records (a key is present iff it is in the DOMAIN),    *)
(* JSON arrays are sequences.  A Python call either returns a value,       *)
(* Ok(v), or raises, Err(exc), where exc is the exception class Python     *)
(* raises at that point.                                                   *)
(***************************************************************************)
EXTENDS Integers, Sequences, FiniteSets, TLC

VARIABLES
    headers,    \* ClientSession.headers: the session's default headers
    pc,         \* for each call made, the await it is suspended at, or "done"
    frame,      \* for each call made, the locals of its coroutine
    sent,       \* the last request handed to the transport
    resp,       \* for each pending call, the last response it received:
                \* its status, whether its body was read, the body
    outcome,    \* the last call that ended: what it returned or raised
                \* and the response it ended on
    ready,      \* history: an open() has run to its end
    writes,     \* history: how many times headers.update ran
    calls,      \* history: how many calls were made on the session
    phase,      \* the decoder harness: "build" the document, then "done"
    arg,        \* the decoder harness: the function's input
    out         \* the decoder harness: the function's result

sessionVars == <<headers, pc, frame, sent, resp, outcome, ready, writes, calls>>
pureVars == <<phase, arg, out>>
vars == <<headers, pc, frame, sent, resp, outcome, ready, writes, calls,
          phase, arg, out>>

----------------------------------------------------------------------------
(* Bounds of the model. *)

\* nesting depth of retweet/quote chains fed to _parse_tweet
MaxDepth == 2
\* number of instructions of a timeline response
MaxInstr == 2
\* number of items over all TimelineAddEntries instructions of a response
MaxItems == 4
\* number of calls made on one session
MaxCalls == 2

----------------------------------------------------------------------------
(* Python values. *)

Ok(v) == [ok |-> TRUE, val |-> v]
\* an exception of class e raised with the arguments args
Err(e, args) == [ok |-> FALSE, exc |-> e, args |-> args]

\* d[k] on a dict without the key k
KeyError(k) == Err("KeyError", <<k>>)
\* None[i]
TypeError == Err("TypeError", <<"'NoneType' object is not subscriptable">>)
\* l[i] on a list of at most i items
IndexError == Err("IndexError", <<"list index out of range">>)
\* the statement "raise ValueError"
ValueError == Err("ValueError", <<>>)

\* Optional[...]: None, or a value
None == [some |-> FALSE]
Some(v) == [some |-> TRUE, v |-> v]

Has(d, k) == k \in DOMAIN d

----------------------------------------------------------------------------
(* The domain model: lines 121-166. *)

User(rest_id, handle, name, description) ==
    [rest_id |-> rest_id, handle |-> handle, name |-> name,
     description |-> description]

PlainTweet(author, content, display_text_range) ==
    [kind |-> "PlainTweet", author |-> author, content |-> content,
     display_text_range |-> display_text_range]

QuoteTweet(author, content, display_text_range, child) ==
    [kind |-> "QuoteTweet", author |-> author, content |-> content,
     display_text_range |-> display_text_range, child |-> child]

Retweet(author, child) ==
    [kind |-> "Retweet", author |-> author, child |-> child]

TombstoneTweet == [kind |-> "TombstoneTweet"]

TimelineEntry(type, tweet) == [type |-> type, tweet |-> tweet]

----------------------------------------------------------------------------
(* _parse_user: every key is read with d[k], which raises KeyError when    *)
(* the key is absent.                                                      *)

_parse_user(data) ==
    IF ~Has(data, "rest_id") THEN KeyError("rest_id")
    ELSE IF ~Has(data, "legacy") THEN KeyError("legacy")
    ELSE LET legacy == data.legacy IN
         IF ~Has(legacy, "screen_name") THEN KeyError("screen_name")
         ELSE IF ~Has(legacy, "name") THEN KeyError("name")
         ELSE IF ~Has(legacy, "description") THEN KeyError("description")
         ELSE Ok(User(data.rest_id, legacy.screen_name, legacy.name,
                      legacy.description))

\* data["core"]["user_results"]["result"], the argument of _parse_user at line 235
CoreUser(data) ==
    IF ~Has(data, "core") THEN KeyError("core")
    ELSE IF ~Has(data.core, "user_results") THEN KeyError("user_results")
    ELSE IF ~Has(data.core.user_results, "result") THEN KeyError("result")
    ELSE Ok(data.core.user_results.result)

(* _parse_tweet returns the tweet, or the exception, together with the keys *)
(* of the node (and of its descendants) that the call read: a read is a     *)
(* pair <<path, key>>, path being the chain of "retweeted"/"quoted" steps   *)
(* from the argument down to the node the key was read from.                *)

Under(step, reads) == {<<<<step>> \o r[1], r[2]>> : r \in reads}

TweetOk(v, reads) == [ok |-> TRUE, val |-> v, reads |-> reads]
TweetErr(err, reads) ==
    [ok |-> FALSE, exc |-> err.exc, args |-> err.args, reads |-> reads]

\* the keys read up to each line of _parse_tweet
ReadType == {<<<<>>, "__typename">>}
ReadLegacy == ReadType \cup {<<<<>>, "legacy">>}
ReadCore == ReadLegacy \cup {<<<<>>, "core">>}
ReadText == ReadCore \cup {<<<<>>, "legacy.full_text">>}
ReadRange == ReadText \cup {<<<<>>, "legacy.display_text_range">>}
ReadRetweeted == ReadRange \cup {<<<<>>, "legacy.retweeted_status_result">>}
ReadQuoted == ReadRetweeted \cup {<<<<>>, "quoted_status_result">>}

\* mutant of IsTombstone: the type name misspelt
IsTombstoneMisspelt(type_name) == type_name = "Tombstone"

\* the test of line 231
IsTombstone(type_name) == type_name = "TweetTombstone"

\* mutant of Variant: the quote tested before the retweet
VariantQuoteFirst(data, legacy) ==
    IF Has(data, "quoted_status_result") THEN "QuoteTweet"
    ELSE IF Has(legacy, "retweeted_status_result") THEN "Retweet"
    ELSE "PlainTweet"

\* the variant chosen by the if/elif/else of lines 239-248
Variant(data, legacy) ==
    IF Has(legacy, "retweeted_status_result") THEN "Retweet"
    ELSE IF Has(data, "quoted_status_result") THEN "QuoteTweet"
    ELSE "PlainTweet"

\* line 235: author = _parse_user(data["core"]["user_results"]["result"])
UserOf(u) == IF u.ok THEN _parse_user(u.val) ELSE u
AuthorOf(data) == UserOf(CoreUser(data))

\* line 242, given the decoded child
AsRetweet(author, c) ==
    IF ~c.ok THEN TweetErr(c, ReadRetweeted \cup Under("retweeted", c.reads))
    ELSE TweetOk(Retweet(author, c.val),
                 ReadRetweeted \cup Under("retweeted", c.reads))

\* line 246, given the decoded child
AsQuote(author, content, display_text_range, c) ==
    IF ~c.ok THEN TweetErr(c, ReadQuoted \cup Under("quoted", c.reads))
    ELSE TweetOk(QuoteTweet(author, content, display_text_range, c.val),
                 ReadQuoted \cup Under("quoted", c.reads))

RECURSIVE _parse_tweet(_)

\* lines 235-248, given the result of decoding the author
TweetBy(data, author) ==
    IF ~author.ok THEN TweetErr(author, ReadCore)
    ELSE IF ~Has(data.legacy, "full_text") THEN TweetErr(KeyError("full_text"), ReadText)
    ELSE IF ~Has(data.legacy, "display_text_range")
         THEN TweetErr(KeyError("display_text_range"), ReadRange)
    ELSE IF Variant(data, data.legacy) = "Retweet"
    THEN IF ~Has(data.legacy.retweeted_status_result, "result")
         THEN TweetErr(KeyError("result"), ReadRetweeted)
         ELSE AsRetweet(author.val,
                        _parse_tweet(data.legacy.retweeted_status_result.result))
    ELSE IF Variant(data, data.legacy) = "QuoteTweet"
    THEN IF ~Has(data.quoted_status_result, "result")
         THEN TweetErr(KeyError("result"), ReadQuoted)
         ELSE AsQuote(author.val, data.legacy.full_text,
                      data.legacy.display_text_range,
                      _parse_tweet(data.quoted_status_result.result))
    ELSE TweetOk(PlainTweet(author.val, data.legacy.full_text,
                            data.legacy.display_text_range), ReadQuoted)

_parse_tweet(data) ==
    IF ~Has(data, "__typename") THEN TweetErr(KeyError("__typename"), ReadType)
    ELSE IF IsTombstone(data.__typename) THEN TweetOk(TombstoneTweet, ReadType)
    ELSE IF ~Has(data, "legacy") THEN TweetErr(KeyError("legacy"), ReadLegacy)
    ELSE TweetBy(data, AuthorOf(data))

----------------------------------------------------------------------------
(* The timeline decoder: lines 251-297. *)

STATUS_TWEET == "STATUS_TWEET"
PINNED_TWEET == "PINNED_TWEET"

\* line 259, given the result of _parse_tweet
EntryOf(type, tweet) ==
    IF ~tweet.ok THEN Err(tweet.exc, tweet.args) ELSE Ok(TimelineEntry(type, tweet.val))

_parse_timeline_tweet_entry(data, type) ==
    IF ~Has(data, "content") THEN KeyError("content")
    ELSE IF ~Has(data.content, "itemContent") THEN KeyError("itemContent")
    ELSE IF ~Has(data.content.itemContent, "tweet_results") THEN KeyError("tweet_results")
    ELSE IF ~Has(data.content.itemContent.tweet_results, "result")
         THEN KeyError("result")
    ELSE EntryOf(type, _parse_tweet(data.content.itemContent.tweet_results.result))

_parse_tweet_cursor(cursor) ==
    IF ~Has(cursor, "content") THEN KeyError("content")
    ELSE IF ~Has(cursor.content, "value") THEN KeyError("value")
    ELSE Ok(cursor.content.value)

\* mutant of AllButLastTwo: the items but the last, items[:-1]
AllButLast(items) ==
    IF Len(items) <= 1 THEN <<>> ELSE SubSeq(items, 1, Len(items) - 1)

\* the slices items[-2:] and items[:-2] of a list
LastTwo(items) ==
    IF Len(items) <= 2 THEN items ELSE SubSeq(items, Len(items) - 1, Len(items))

AllButLastTwo(items) ==
    IF Len(items) <= 2 THEN <<>> ELSE SubSeq(items, 1, Len(items) - 2)

\* list(map(parse, items)) of line 283: the first item that fails to decode
\* raises, and no list is made
Prepend(x, rest) == IF ~rest.ok THEN rest ELSE Ok(<<x>> \o rest.val)

RECURSIVE MapParse(_, _)

\* mutant of MapRest: an item that fails to decode is left out
MapRestSkipping(first, items, type) ==
    IF ~first.ok THEN MapParse(items, type)
    ELSE Prepend(first.val, MapParse(items, type))

MapRest(first, items, type) ==
    IF ~first.ok THEN first ELSE Prepend(first.val, MapParse(items, type))

MapParse(items, type) ==
    IF items = <<>> THEN Ok(<<>>)
    ELSE MapRest(_parse_timeline_tweet_entry(Head(items), type), Tail(items), type)

\* lines 278 and 284, given the result of line 283
Extend(entries, items, parsed) ==
    IF ~parsed.ok THEN parsed
    ELSE Ok([entries |-> entries \o parsed.val, cursors |-> Some(LastTwo(items))])

\* lines 276-284: the loop's entries and cursors after the first if
AddEntries(instruction, entries, cursors) ==
    IF instruction.type = "TimelineAddEntries"
    THEN IF ~Has(instruction, "entries") THEN KeyError("entries")
         ELSE Extend(entries, instruction.entries,
                     MapParse(AllButLastTwo(instruction.entries), STATUS_TWEET))
    ELSE Ok([entries |-> entries, cursors |-> cursors])

\* mutant of TakesPin: the pinned flag is not looked at
TakesPinAlways(instruction, pinned) == instruction.type = "TimelinePinEntry"

\* the test of line 285
TakesPin(instruction, pinned) ==
    instruction.type = "TimelinePinEntry" /\ pinned

\* line 292, given the result of lines 287-290
AppendPinned(state, parsed) ==
    IF ~parsed.ok THEN parsed
    ELSE Ok([entries |-> state.entries \o <<parsed.val>>, cursors |-> state.cursors])

\* lines 285-292: the loop's entries and cursors after the second if
PinEntry(instruction, pinned, added) ==
    IF ~added.ok THEN added
    ELSE IF TakesPin(instruction, pinned)
    THEN IF ~Has(instruction, "entry") THEN KeyError("entry")
         ELSE AppendPinned(added.val,
                  _parse_timeline_tweet_entry(instruction.entry, PINNED_TWEET))
    ELSE added

\* the body of the for loop of lines 275-292, on one instruction
Instruction(instruction, pinned, entries, cursors) ==
    IF ~Has(instruction, "type") THEN KeyError("type")
    ELSE PinEntry(instruction, pinned, AddEntries(instruction, entries, cursors))

\* the for loop of lines 275-292
RECURSIVE Instructions(_, _, _, _)

NextInstruction(instructions, pinned, step) ==
    IF ~step.ok THEN step
    ELSE Instructions(instructions, pinned, step.val.entries, step.val.cursors)

Instructions(instructions, pinned, entries, cursors) ==
    IF instructions = <<>> THEN Ok([entries |-> entries, cursors |-> cursors])
    ELSE NextInstruction(Tail(instructions), pinned,
             Instruction(Head(instructions), pinned, entries, cursors))

\* data["data"]["user"]["result"]["timeline_v2"]["timeline"]["instructions"]
InstructionsOf(data) ==
    IF ~Has(data, "data") THEN KeyError("data")
    ELSE IF ~Has(data.data, "user") THEN KeyError("user")
    ELSE IF ~Has(data.data.user, "result") THEN KeyError("result")
    ELSE IF ~Has(data.data.user.result, "timeline_v2") THEN KeyError("timeline_v2")
    ELSE IF ~Has(data.data.user.result.timeline_v2, "timeline") THEN KeyError("timeline")
    ELSE IF ~Has(data.data.user.result.timeline_v2.timeline, "instructions")
         THEN KeyError("instructions")
    ELSE Ok(data.data.user.result.timeline_v2.timeline.instructions)

\* lines 272-292, given the result of line 270
Loop(instructions, pinned) ==
    IF ~instructions.ok THEN instructions
    ELSE Instructions(instructions.val, pinned, <<>>, None)

\* lines 295-297, given the result of line 294; the page is the tuple
\* (entries, cursor_top, cursor_bottom)
Page(entries, cursor_top, cursor_bottom) ==
    IF ~cursor_bottom.ok THEN cursor_bottom
    ELSE Ok(<<entries, cursor_top, cursor_bottom.val>>)

\* cursors[1] of line 295: a list of one item has none
CursorBottom(entries, cursors, cursor_top) ==
    IF ~cursor_top.ok THEN cursor_top
    ELSE IF Len(cursors) < 2 THEN IndexError
    ELSE Page(entries, cursor_top.val, _parse_tweet_cursor(cursors[2]))

\* mutant of CursorTop: cursors starts as a pair of empty cursors, not as None
CursorTopDefaulted(loop) ==
    IF ~loop.ok THEN loop
    ELSE IF ~loop.val.cursors.some THEN Ok(<<loop.val.entries, 0, 0>>)
    ELSE IF Len(loop.val.cursors.v) < 1 THEN IndexError
    ELSE CursorBottom(loop.val.entries, loop.val.cursors.v,
                      _parse_tweet_cursor(loop.val.cursors.v[1]))

\* cursors[0] of line 294: cursors is None until a TimelineAddEntries
\* instruction is met, and None[0] is a TypeError; an empty list has no item
CursorTop(loop) ==
    IF ~loop.ok THEN loop
    ELSE IF ~loop.val.cursors.some THEN TypeError
    ELSE IF Len(loop.val.cursors.v) < 1 THEN IndexError
    ELSE CursorBottom(loop.val.entries, loop.val.cursors.v,
                      _parse_tweet_cursor(loop.val.cursors.v[1]))

_parse_timeline(data, pinned) == CursorTop(Loop(InstructionsOf(data), pinned))

----------------------------------------------------------------------------
(* The JSON documents the decoders are run on. *)

\* the object with no key
Empty == [k \in {} |-> 0]

\* a user-result object, as in data.user.result or core.user_results.result
UserData(rest_id, handle) ==
    [rest_id |-> rest_id,
     legacy |-> [screen_name |-> handle, name |-> handle, description |-> "bio"]]

Alice == UserData("1", "alice")
Bob == UserData("2", "bob")
Carol == UserData("3", "carol")
\* a user-result object without its legacy part
BrokenUser == [rest_id |-> "4"]

Core(user) == [core |-> [user_results |-> [result |-> user]]]

\* the legacy part of a tweet node with text t
Legacy(t) == [full_text |-> t, display_text_range |-> <<0, 5>>]

\* a tweet node that decodes to a PlainTweet by Bob
PlainBob == [__typename |-> "Tweet", legacy |-> Legacy(9)] @@ Core(Bob)

TypeNames == {"Tweet", "TweetTombstone"}

\* the nodes without children: with or without legacy, with or without core
LeafNodes ==
    {[__typename |-> t] @@ l @@ c :
        t \in TypeNames,
        l \in {Empty, [legacy |-> Legacy(0)]},
        c \in {Empty, Core(Alice), Core(BrokenUser)}}

----------------------------------------------------------------------------
(* SpecTweet: a tweet node is built leaf first, each step wrapping the     *)
(* node in a retweeting or quoting node, and _parse_tweet is run on it.    *)

InitTweet ==
    /\ phase = "build"
    /\ arg \in {[node |-> n, depth |-> 0] : n \in LeafNodes}
    /\ out = Empty
    /\ headers = {} /\ pc = <<>> /\ frame = <<>> /\ sent = Empty
    /\ resp = <<>> /\ outcome = Empty /\ ready = FALSE /\ writes = 0
    /\ calls = 0

\* the node becomes legacy.retweeted_status_result.result of a new node
WrapRetweeted ==
    /\ phase = "build"
    /\ arg.depth < MaxDepth
    /\ \E t \in TypeNames, c \in {Empty, Core(Carol)},
          q \in {Empty, [quoted_status_result |-> [result |-> PlainBob]]} :
          arg' = [node |-> [__typename |-> t,
                            legacy |-> Legacy(arg.depth + 1) @@
                                [retweeted_status_result |-> [result |-> arg.node]]]
                           @@ c @@ q,
                  depth |-> arg.depth + 1]
    /\ UNCHANGED <<phase, out>>
    /\ UNCHANGED sessionVars

\* the node becomes quoted_status_result.result of a new node
WrapQuoted ==
    /\ phase = "build"
    /\ arg.depth < MaxDepth
    /\ \E t \in TypeNames, c \in {Empty, Core(Carol)},
          l \in {Empty,
                 [legacy |-> Legacy(arg.depth + 1)],
                 [legacy |-> Legacy(arg.depth + 1) @@
                     [retweeted_status_result |-> [result |-> PlainBob]]]} :
          arg' = [node |-> [__typename |-> t,
                            quoted_status_result |-> [result |-> arg.node]]
                           @@ l @@ c,
                  depth |-> arg.depth + 1]
    /\ UNCHANGED <<phase, out>>
    /\ UNCHANGED sessionVars

ParseTweet ==
    /\ phase = "build"
    /\ phase' = "done"
    /\ out' = _parse_tweet(arg.node)
    /\ UNCHANGED arg
    /\ UNCHANGED sessionVars

NextTweet == WrapRetweeted \/ WrapQuoted \/ ParseTweet

SpecTweet == InitTweet /\ [][NextTweet]_vars

----------------------------------------------------------------------------
(* SpecTimeline: a timeline response is built instruction by instruction   *)
(* and item by item, and _parse_timeline is run on it.  An item carries    *)
(* its place in the response as its text or cursor value, so that every    *)
(* item of a response is different from the others.                        *)

TweetItem(node) ==
    [entryId |-> "tweet",
     content |-> [itemContent |-> [tweet_results |-> [result |-> node]]]]

\* a tweet by Alice whose text is id
GoodTweet(id) == TweetItem([__typename |-> "Tweet", legacy |-> Legacy(id)]
                           @@ Core(Alice))
\* a tweet node without its legacy part
BadTweet(id) == TweetItem([__typename |-> "Tweet", rest_id |-> id])
CursorItem(id) == [entryId |-> "cursor", content |-> [value |-> id]]
\* an entry that is neither a tweet nor a cursor
BareItem(id) == [entryId |-> "other", content |-> [entryType |-> id]]

ItemsAt(id) == {GoodTweet(id), BadTweet(id), CursorItem(id), BareItem(id)}

Envelope(instructions) ==
    [data |-> [user |-> [result |-> [timeline_v2 |->
        [timeline |-> [instructions |-> instructions]]]]]]

\* the response of a user that has no timeline
NoTimeline == [data |-> [user |-> [result |-> [rest_id |-> "1"]]]]

IsAdd(instruction) == instruction.type = "TimelineAddEntries"
IsPin(instruction) == instruction.type = "TimelinePinEntry"

\* the instruction list of the response being built
Instrs == arg.data.data.user.result.timeline_v2.timeline.instructions
HasTimeline == InstructionsOf(arg.data).ok

RECURSIVE ItemCount(_)
ItemCount(instructions) ==
    IF instructions = <<>> THEN 0
    ELSE (IF IsAdd(Head(instructions)) THEN Len(Head(instructions).entries) ELSE 0)
         + ItemCount(Tail(instructions))

InitTimeline ==
    /\ phase = "build"
    /\ arg \in {[data |-> d, pinned |-> p] :
                   d \in {Envelope(<<>>), NoTimeline}, p \in BOOLEAN}
    /\ out = Empty
    /\ headers = {} /\ pc = <<>> /\ frame = <<>> /\ sent = Empty
    /\ resp = <<>> /\ outcome = Empty /\ ready = FALSE /\ writes = 0
    /\ calls = 0

AppendInstruction ==
    /\ phase = "build"
    /\ HasTimeline
    /\ Len(Instrs) < MaxInstr
    /\ \E i \in {[type |-> "TimelineAddEntries", entries |-> <<>>],
                 [type |-> "TimelineClearCache"]}
             \cup {[type |-> "TimelinePinEntry", entry |-> e] :
                     e \in {GoodTweet(10 * (Len(Instrs) + 1)),
                            BadTweet(10 * (Len(Instrs) + 1)),
                            BareItem(10 * (Len(Instrs) + 1))}} :
          arg' = [arg EXCEPT !.data = Envelope(Append(Instrs, i))]
    /\ UNCHANGED <<phase, out>>
    /\ UNCHANGED sessionVars

AppendItem ==
    /\ phase = "build"
    /\ HasTimeline
    /\ Instrs # <<>>
    /\ IsAdd(Instrs[Len(Instrs)])
    /\ ItemCount(Instrs) < MaxItems
    /\ LET k == Len(Instrs)
           id == 10 * k + Len(Instrs[k].entries) + 1
       IN  \E item \in ItemsAt(id) :
              arg' = [arg EXCEPT !.data =
                         Envelope([Instrs EXCEPT ![k].entries = Append(@, item)])]
    /\ UNCHANGED <<phase, out>>
    /\ UNCHANGED sessionVars

ParseTimeline ==
    /\ phase = "build"
    /\ phase' = "done"
    /\ out' = _parse_timeline(arg.data, arg.pinned)
    /\ UNCHANGED arg
    /\ UNCHANGED sessionVars

NextTimeline == AppendInstruction \/ AppendItem \/ ParseTimeline

SpecTimeline == InitTimeline /\ [][NextTimeline]_vars

----------------------------------------------------------------------------
(* The GraphQL request builder: lines 36-118.  A dict is the sequence of    *)
(* its <<key, value>> pairs in insertion order; json.dumps(d) is the JSON   *)
(* text of d, written Json(d).                                              *)

TwitterWebappURL == "https://twitter.com"
TwitterGraphQlURL == "https://twitter.com/i/api/graphql"

Json(d) == [json |-> d]

_to_http_params(variables, features) ==
    <<<<"variables", Json(variables)>>, <<"features", Json(features)>>>>

UserFeatures ==
    <<<<"blue_business_profile_image_shape_enabled", TRUE>>,
      <<"responsive_web_graphql_exclude_directive_enabled", TRUE>>,
      <<"verified_phone_label_enabled", FALSE>>,
      <<"highlights_tweets_tab_ui_enabled", FALSE>>,
      <<"creator_subscriptions_tweet_preview_api_enabled", FALSE>>,
      <<"responsive_web_graphql_skip_user_profile_image_extensions_enabled", FALSE>>,
      <<"responsive_web_graphql_timeline_navigation_enabled", TRUE>>>>

user_by_handle(handle) ==
    [url |-> <<TwitterGraphQlURL, "pVrmNaXcxPjisIvKtLDMEA", "UserByScreenName">>,
     params |-> _to_http_params(<<<<"screen_name", handle>>>>, UserFeatures)]

TimelineFeatures ==
    <<<<"rweb_lists_timeline_redesign_enabled", FALSE>>,
      <<"blue_business_profile_image_shape_enabled", TRUE>>,
      <<"responsive_web_graphql_exclude_directive_enabled", TRUE>>,
      <<"verified_phone_label_enabled", FALSE>>,
      <<"creator_subscriptions_tweet_preview_api_enabled", FALSE>>,
      <<"responsive_web_graphql_timeline_navigation_enabled", TRUE>>,
      <<"responsive_web_graphql_skip_user_profile_image_extensions_enabled", FALSE>>,
      <<"tweetypie_unmention_optimization_enabled", TRUE>>,
      <<"vibe_api_enabled", TRUE>>,
      <<"responsive_web_edit_tweet_api_enabled", TRUE>>,
      <<"graphql_is_translatable_rweb_tweet_is_translatable_enabled", TRUE>>,
      <<"view_counts_everywhere_api_enabled", TRUE>>,
      <<"longform_notetweets_consumption_enabled", TRUE>>,
      <<"tweet_awards_web_tipping_enabled", FALSE>>,
      <<"freedom_of_speech_not_reach_fetch_enabled", TRUE>>,
      <<"standardized_nudges_misinfo", TRUE>>,
      <<"tweet_with_visibility_results_prefer_gql_limited_actions_policy_enabled", FALSE>>,
      <<"interactive_text_enabled", TRUE>>,
      <<"responsive_web_text_conversations_enabled", FALSE>>,
      <<"longform_notetweets_rich_text_read_enabled", TRUE>>,
      <<"longform_notetweets_inline_media_enabled", FALSE>>,
      <<"responsive_web_enhance_cards_enabled", FALSE>>>>

\* the count sent when the caller gives none
DefaultCount == 40

\* the truth value of an Optional[int] and of an Optional[str]: None, 0 and
\* the empty string are false
TruthyInt(x) == x.some /\ x.v # 0
TruthyStr(x) == x.some /\ x.v # ""

\* line 81: count or 40
CountOr(count) == IF TruthyInt(count) THEN count.v ELSE DefaultCount

\* lines 88-89: if cursor: variables["cursor"] = cursor
WithCursor(variables, cursor) ==
    IF TruthyStr(cursor) THEN Append(variables, <<"cursor", cursor.v>>)
    ELSE variables

timeline(user_id, count, cursor) ==
    [url |-> <<TwitterGraphQlURL, "WzJjibAcDa-oCjCcLOotcg", "UserTweets">>,
     params |-> _to_http_params(
        WithCursor(<<<<"userId", user_id>>,
                     <<"count", CountOr(count)>>,
                     <<"includePromotedContent", TRUE>>,
                     <<"withQuickPromoteEligibilityTweetFields", TRUE>>,
                     <<"withVoice", TRUE>>,
                     <<"withV2Timeline", TRUE>>>>, cursor),
        TimelineFeatures)]

----------------------------------------------------------------------------
(* SpecBuild: timeline is run on a user id, a count and a cursor. *)

UserIds == {"1", "2", "3"}
Counts == {None, Some(0), Some(1), Some(40), Some(100)}
Cursors == {None, Some(""), Some("c1"), Some("c2")}

InitBuild ==
    /\ phase = "build"
    /\ arg \in {[user_id |-> u, count |-> n, cursor |-> c] :
                   u \in UserIds, n \in Counts, c \in Cursors}
    /\ out = Empty
    /\ headers = {} /\ pc = <<>> /\ frame = <<>> /\ sent = Empty
    /\ resp = <<>> /\ outcome = Empty /\ ready = FALSE /\ writes = 0
    /\ calls = 0

BuildTimeline ==
    /\ phase = "build"
    /\ phase' = "done"
    /\ out' = timeline(arg.user_id, arg.count, arg.cursor)
    /\ UNCHANGED arg
    /\ UNCHANGED sessionVars

NextBuild == BuildTimeline

SpecBuild == InitBuild /\ [][NextBuild]_vars

----------------------------------------------------------------------------
(* The bootstrap: lines 169-210.                                            *)
(*                                                                          *)
(* An HTML document is the sequence of its <script> elements, as find_all   *)
(* lists them.  An element has a src attribute or none, and its text either *)
(* holds a match of _TWITTER_GUEST_TOKEN_COOKIE_PATTERN or holds none; the  *)
(* match is given as the key=value pairs SimpleCookie.load finds in it:     *)
(* gt and its value, with attributes or other keys after it, or nothing at  *)
(* all when the value is not one a cookie can have (a space, a quote or a   *)
(* non-ASCII character in it).  load raises on a key that is illegal.  The  *)
(* source of the application script is the sequence of the double-quoted    *)
(* strings in it: the length of each, whether all its characters are in     *)
(* [a-zA-Z0-9%], and the string itself.                                     *)

\* the length _TWITTER_AUTH_TOKEN_PATTERN asks for
TokenLength == 104

_build_headers(auth_token, guest_token) ==
    {<<"Authorization", <<"Bearer", auth_token>>>>, <<"x-guest-token", guest_token>>}

\* "main" in src
ContainsMain(src) == src \in {"https://abs.twimg.com/main.1a2b.js", "/main.js"}

\* None.value, of line 196
AttributeError == Err("AttributeError", <<"'NoneType' object has no attribute 'value'">>)

\* the keys SimpleCookie refuses, among those of the documents below
IllegalKeys == {"a@b"}

\* what load raises on the key a@b
CookieError == Err("CookieError", <<"Illegal key 'a@b'">>)

\* line 195: guest_token_cookie.load(...), on the pairs of the match
SimpleCookieLoad(pairs) ==
    IF DOMAIN pairs \cap IllegalKeys # {} THEN CookieError ELSE Ok(pairs)

\* lines 195-196: guest_token_cookie.get("gt").value, given what load did
GuestToken(loaded, found) ==
    IF ~loaded.ok THEN loaded
    ELSE IF ~Has(loaded.val, "gt") THEN AttributeError
    ELSE Ok([found EXCEPT !.guest_token = Some(loaded.val.gt)])

\* one turn of the loop of lines 183-196 on the pair (url, guest_token)
ScanElement(element, found) ==
    IF element.src.some /\ element.src.v # "" /\ ContainsMain(element.src.v)
    THEN Ok([found EXCEPT !.url = element.src])
    ELSE IF element.cookie.some
    THEN GuestToken(SimpleCookieLoad(element.cookie.v), found)
    ELSE Ok(found)

RECURSIVE ScanElements(_, _)
\* the loop goes on to the next element unless the turn raised
ScanRest(elements, scanned) ==
    IF ~scanned.ok THEN scanned ELSE ScanElements(elements, scanned.val)

ScanElements(elements, found) ==
    IF elements = <<>> THEN Ok(found)
    ELSE ScanRest(Tail(elements), ScanElement(Head(elements), found))

\* lines 198-201, given what the loop found
AppData(scanned) ==
    IF ~scanned.ok THEN scanned
    ELSE IF ~TruthyStr(scanned.val.url) \/ ~TruthyStr(scanned.val.guest_token)
    THEN ValueError
    ELSE Ok(<<scanned.val.url.v, scanned.val.guest_token.v>>)

_parse_app_data(html) ==
    AppData(ScanElements(html, [url |-> None, guest_token |-> None]))

\* the first double-quoted string the pattern matches, if any
RECURSIVE Search(_)
Search(source) ==
    IF source = <<>> THEN None
    ELSE IF Head(source).len = TokenLength /\ Head(source).alnum
    THEN Some(Head(source).text)
    ELSE Search(Tail(source))

\* mutant of AuthToken: no match gives an empty token
AuthTokenSilent(match) == IF ~match.some THEN Ok("") ELSE Ok(match.v)

\* lines 207-210, given the match
AuthToken(match) == IF ~match.some THEN ValueError ELSE Ok(match.v)

_parse_auth_token(source) == AuthToken(Search(source))

----------------------------------------------------------------------------
(* ClientSession: lines 21-33 and 300-342.                                  *)
(*                                                                          *)
(* A call is an action that runs its coroutine up to its first await on the *)
(* transport, and one action for each await after it, that runs the         *)
(* coroutine to its next await or to its end.                               *)
(* The transport takes the session's default headers with every request.    *)

Request(url, params) == [url |-> url, params |-> params, headers |-> headers]

\* headers.update(new)
Update(old, new) ==
    {h \in old : h[1] \notin {n[1] : n \in new}} \cup new

\* _validate_status: line 25
StatusOk(status) == status = 200

\* the documents the transport answers with
MainScript == [src |-> Some("https://abs.twimg.com/main.1a2b.js"), cookie |-> None]
VendorScript == [src |-> Some("https://abs.twimg.com/vendor.js"), cookie |-> None]
CookieScript(gt) == [src |-> None, cookie |-> Some([gt |-> gt, path |-> "/"])]
\* a script with a src that holds "main" and an inline cookie assignment
MainWithCookie == [src |-> Some("/main.js"), cookie |-> Some([gt |-> "g9", path |-> "/"])]

\* an inline cookie assignment SimpleCookie reads nothing from, as "gt=a b"
UnreadableCookieScript == [src |-> None, cookie |-> Some(Empty)]

\* an inline cookie assignment with an illegal key, as "gt=g1; a@b=c"
IllegalCookieScript ==
    [src |-> None, cookie |-> Some([gt |-> "g1"] @@ ("a@b" :> "c"))]

Scripts == {MainScript, VendorScript, CookieScript("g1"), CookieScript(""),
            MainWithCookie, UnreadableCookieScript, IllegalCookieScript}

Htmls == {<<>>} \cup {<<a>> : a \in Scripts} \cup {<<a, b>> : a, b \in Scripts}

Quoted == {[len |-> 104, alnum |-> TRUE, text |-> "A1"],
           [len |-> 104, alnum |-> TRUE, text |-> "A2"],
           [len |-> 104, alnum |-> FALSE, text |-> "B"],
           [len |-> 103, alnum |-> TRUE, text |-> "C"],
           [len |-> 105, alnum |-> TRUE, text |-> "D"]}

Sources == {<<>>} \cup {<<a>> : a \in Quoted} \cup {<<a, b>> : a, b \in Quoted}

Statuses == {200, 403}

\* the arguments the calls are made with
Handles == {"alice"}
TimelineArgs == {[user_id |-> "1", count |-> None, cursor |-> None],
                 [user_id |-> "1", count |-> Some(0), cursor |-> Some("")]}

UserBodies == {[data |-> [user |-> [result |-> Alice]]],
               [data |-> [user |-> [result |-> BrokenUser]]],
               [data |-> [user |-> [rest_id |-> "0"]]],
               [errors |-> "x"]}

TimelineBodies ==
    {Envelope(<<>>),
     Envelope(<<[type |-> "TimelineAddEntries",
                 entries |-> <<CursorItem(1), CursorItem(2)>>]>>),
     Envelope(<<[type |-> "TimelinePinEntry", entry |-> GoodTweet(10)],
                [type |-> "TimelineAddEntries",
                 entries |-> <<GoodTweet(21), CursorItem(22), CursorItem(23)>>]>>),
     Envelope(<<[type |-> "TimelinePinEntry", entry |-> BadTweet(10)],
                [type |-> "TimelineAddEntries",
                 entries |-> <<GoodTweet(21), CursorItem(22), CursorItem(23)>>]>>),
     NoTimeline}

Init ==
    /\ headers = {}
    /\ pc = <<>>
    /\ frame = <<>>
    /\ sent = Empty
    /\ resp = <<>>
    /\ outcome = Empty
    /\ ready = FALSE
    /\ writes = 0
    /\ calls = 0
    /\ phase = "session" /\ arg = Empty /\ out = Empty

(* The calls made on the session are numbered 1..calls in the order they    *)
(* were made.  Each is a coroutine: it runs from one await to the next and  *)
(* hands control back to the event loop there, where any other call on the  *)
(* session, pending or new, can run.  Nothing in ClientSession keeps a call *)
(* from being made while another is pending.                                *)

\* the pending calls suspended at an await
Awaiting(position) == {id \in 1..calls : pc[id] = position}

\* the awaits of a body: response.text() of lines 312, 318; response.json() of line 33
BodyAwaits == {"open_index_text", "open_app_text",
               "get_user_by_handle_json", "get_timeline_json"}

\* a response whose status has arrived, and the same after its body was read
Arrived(status) == [status |-> status, read |-> FALSE]
Read(body) == [status |-> 200, read |-> TRUE, body |-> body]

\* a call is made: it runs to its first await, the request handed over
Start(position, locals, request) ==
    /\ calls < MaxCalls
    /\ calls' = calls + 1
    /\ pc' = Append(pc, position)
    /\ frame' = Append(frame, locals)
    /\ resp' = Append(resp, Empty)
    /\ sent' = request

\* a call goes on to its next await
Goto(id, position, locals, response) ==
    /\ pc' = [pc EXCEPT ![id] = position]
    /\ frame' = [frame EXCEPT ![id] = locals]
    /\ resp' = [resp EXCEPT ![id] = response]

\* a call ends: with a value, or with the exception it raises
Return(id, response, result) ==
    /\ pc' = [pc EXCEPT ![id] = "done"]
    /\ frame' = [frame EXCEPT ![id] = Empty]
    /\ resp' = [resp EXCEPT ![id] = Empty]
    /\ outcome' = [id |-> id, op |-> frame[id].op, resp |-> response,
                   result |-> result]

\* open(), or __aenter__ which awaits it: up to the await of line 310
Open ==
    /\ Start("open_index", [op |-> "open"], Request(TwitterWebappURL, <<>>))
    /\ UNCHANGED <<headers, outcome, ready, writes, pureVars>>

\* lines 310-312: the first response arrives, up to the await of its text
OpenIndex ==
    /\ \E id \in Awaiting("open_index"), status \in Statuses :
          IF ~StatusOk(status)
          THEN Return(id, Arrived(status), ValueError)
          ELSE /\ Goto(id, "open_index_text", frame[id], Arrived(status))
               /\ UNCHANGED outcome
    /\ UNCHANGED <<headers, sent, ready, writes, calls, pureVars>>

\* the locals of open() once line 314 has run
OpenLocals(app_data) ==
    [op |-> "open", app_url |-> app_data[1], guest_token |-> app_data[2]]

\* lines 312-316: the text of the first response, up to the await of line 316
OpenIndexText ==
    /\ \E id \in Awaiting("open_index_text"), html \in Htmls :
          IF ~_parse_app_data(html).ok
          THEN /\ Return(id, Read(html), _parse_app_data(html))
               /\ UNCHANGED sent
          ELSE /\ Goto(id, "open_app", OpenLocals(_parse_app_data(html).val),
                       Read(html))
               /\ sent' = Request(_parse_app_data(html).val[1], <<>>)
               /\ UNCHANGED outcome
    /\ UNCHANGED <<headers, ready, writes, calls, pureVars>>

\* lines 316-318: the second response arrives, up to the await of its text
OpenApp ==
    /\ \E id \in Awaiting("open_app"), status \in Statuses :
          IF ~StatusOk(status)
          THEN Return(id, Arrived(status), ValueError)
          ELSE /\ Goto(id, "open_app_text", frame[id], Arrived(status))
               /\ UNCHANGED outcome
    /\ UNCHANGED <<headers, sent, ready, writes, calls, pureVars>>

\* lines 318-321: the text of the second response, to the end of open()
OpenAppText ==
    /\ \E id \in Awaiting("open_app_text"), source \in Sources :
          IF ~_parse_auth_token(source).ok
          THEN /\ Return(id, Read(source), _parse_auth_token(source))
               /\ UNCHANGED <<headers, ready, writes>>
          ELSE /\ headers' = Update(headers,
                      _build_headers(_parse_auth_token(source).val,
                                     frame[id].guest_token))
               /\ writes' = writes + 1
               /\ ready' = TRUE
               /\ Return(id, Read(source), Ok("None"))
    /\ UNCHANGED <<sent, calls, pureVars>>

\* get_user_by_handle: up to the await of line 30, in _get_json
GetUserByHandle ==
    /\ \E handle \in Handles :
          Start("get_user_by_handle",
                [op |-> "get_user_by_handle", handle |-> handle],
                Request(user_by_handle(handle).url, user_by_handle(handle).params))
    /\ UNCHANGED <<headers, outcome, ready, writes, pureVars>>

\* data["data"]["user"]["result"] of line 326
UserResult(data) ==
    IF ~Has(data, "data") THEN KeyError("data")
    ELSE IF ~Has(data.data, "user") THEN KeyError("user")
    ELSE IF ~Has(data.data.user, "result") THEN KeyError("result")
    ELSE Ok(data.data.user.result)

\* lines 30-33: the response arrives, up to the await of its JSON
GetUserByHandleResponse ==
    /\ \E id \in Awaiting("get_user_by_handle"), status \in Statuses :
          IF ~StatusOk(status)
          THEN Return(id, Arrived(status), ValueError)
          ELSE /\ Goto(id, "get_user_by_handle_json", frame[id], Arrived(status))
               /\ UNCHANGED outcome
    /\ UNCHANGED <<headers, sent, ready, writes, calls, pureVars>>

\* lines 33 and 325-328: the JSON of the response, to the end of the call
GetUserByHandleJson ==
    /\ \E id \in Awaiting("get_user_by_handle_json"), body \in UserBodies :
          Return(id, Read(body), UserOf(UserResult(body)))
    /\ UNCHANGED <<headers, sent, ready, writes, calls, pureVars>>

\* get_timeline: up to the await of line 30, in _get_json
GetTimeline ==
    /\ \E a \in TimelineArgs, pinned \in BOOLEAN :
          Start("get_timeline",
                [op |-> "get_timeline", user_id |-> a.user_id,
                 count |-> a.count, cursor |-> a.cursor, pinned |-> pinned],
                Request(timeline(a.user_id, a.count, a.cursor).url,
                        timeline(a.user_id, a.count, a.cursor).params))
    /\ UNCHANGED <<headers, outcome, ready, writes, pureVars>>

\* lines 30-33: the response arrives, up to the await of its JSON
GetTimelineResponse ==
    /\ \E id \in Awaiting("get_timeline"), status \in Statuses :
          IF ~StatusOk(status)
          THEN Return(id, Arrived(status), ValueError)
          ELSE /\ Goto(id, "get_timeline_json", frame[id], Arrived(status))
               /\ UNCHANGED outcome
    /\ UNCHANGED <<headers, sent, ready, writes, calls, pureVars>>

\* lines 33 and 339-342: the JSON of the response, to the end of the call
GetTimelineJson ==
    /\ \E id \in Awaiting("get_timeline_json"), body \in TimelineBodies :
          Return(id, Read(body), _parse_timeline(body, frame[id].pinned))
    /\ UNCHANGED <<headers, sent, ready, writes, calls, pureVars>>

\* the transport raises at an await, of a response or of a body: the call
\* ends with the transport's exception; a body that fails leaves its
\* response as it arrived, status validated and body unread
TransportFails ==
    /\ \E id \in 1..calls :
          /\ pc[id] # "done"
          /\ Return(id, IF pc[id] \in BodyAwaits THEN resp[id] ELSE Empty,
                    Err("ClientError", <<>>))
    /\ UNCHANGED <<headers, sent, ready, writes, calls, pureVars>>

Next ==
    \/ Open
    \/ OpenIndex
    \/ OpenIndexText
    \/ OpenApp
    \/ OpenAppText
    \/ GetUserByHandle
    \/ GetUserByHandleResponse
    \/ GetUserByHandleJson
    \/ GetTimeline
    \/ GetTimelineResponse
    \/ GetTimelineJson
    \/ TransportFails

Spec == Init /\ [][Next]_vars

----------------------------------------------------------------------------
(* What the claims about _parse_tweet say, under SpecTweet. *)

\* the node reached from node along a path of "retweeted"/"quoted" steps
RECURSIVE NodeAt(_, _)
NodeAt(node, path) ==
    IF path = <<>> THEN node
    ELSE IF Head(path) = "retweeted"
    THEN NodeAt(node.legacy.retweeted_status_result.result, Tail(path))
    ELSE NodeAt(node.quoted_status_result.result, Tail(path))

\* the tweet reached from a decoded tweet along a path
RECURSIVE TweetAt(_, _)
TweetAt(tweet, path) ==
    IF path = <<>> THEN tweet ELSE TweetAt(tweet.child, Tail(path))

ReadPaths(reads) == {r[1] : r \in reads}
KeysReadAt(reads, path) == {r[2] : r \in {x \in reads : x[1] = path}}

TombstoneNode(node) == Has(node, "__typename") /\ node.__typename = "TweetTombstone"

\* the user a node's own core.user_results.result describes
OwnAuthor(node) ==
    [rest_id |-> node.core.user_results.result.rest_id,
     handle |-> node.core.user_results.result.legacy.screen_name,
     name |-> node.core.user_results.result.legacy.name,
     description |-> node.core.user_results.result.legacy.description]

\* the nodes that have every field their decoding needs
RECURSIVE Decodable(_)
Decodable(node) ==
    \/ TombstoneNode(node)
    \/ /\ Has(node, "__typename") /\ Has(node, "legacy") /\ Has(node, "core")
       /\ Has(node.core.user_results.result, "legacy")
       /\ IF Has(node.legacy, "retweeted_status_result")
          THEN Decodable(node.legacy.retweeted_status_result.result)
          ELSE IF Has(node, "quoted_status_result")
          THEN Decodable(node.quoted_status_result.result)
          ELSE TRUE

(* C7: a node whose __typename is TweetTombstone decodes to TombstoneTweet, *)
(* and the only key read from it is __typename, whether or not it has a     *)
(* legacy or a core part; the same holds of a tombstone node reached as the *)
(* child of a retweet or of a quote.                                        *)
C7_TombstoneReadsOnlyItsType ==
    phase = "done" =>
        /\ TombstoneNode(arg.node) => (out.ok /\ out.val = TombstoneTweet)
        /\ \A p \in ReadPaths(out.reads) :
              TombstoneNode(NodeAt(arg.node, p)) =>
                  /\ KeysReadAt(out.reads, p) = {"__typename"}
                  /\ out.ok => TweetAt(out.val, p) = TombstoneTweet

\* a tombstone that has a legacy and a core part was decoded as the child
\* of a retweet or quote
C7_Witness ==
    /\ phase = "done"
    /\ out.ok
    /\ \E p \in ReadPaths(out.reads) :
          /\ p # <<>>
          /\ TombstoneNode(NodeAt(arg.node, p))
          /\ Has(NodeAt(arg.node, p), "legacy")
          /\ Has(NodeAt(arg.node, p), "core")
          /\ TweetAt(out.val, p) = TombstoneTweet

(* C9: a node that is not a tombstone decodes, when it decodes, to a        *)
(* Retweet if its legacy has retweeted_status_result (whether or not the    *)
(* node has quoted_status_result), else to a QuoteTweet if the node has     *)
(* quoted_status_result, else to a PlainTweet; the author is the user of    *)
(* the node's own core.user_results.result, the child is the decoding of    *)
(* the nested result node; and it decodes exactly when it and the children  *)
(* on that path have the fields the decoding reads.                         *)
C9_VariantByPrecedence ==
    phase = "done" =>
        /\ out.ok = Decodable(arg.node)
        /\ (out.ok /\ ~TombstoneNode(arg.node)) =>
              IF Has(arg.node.legacy, "retweeted_status_result")
              THEN out.val = Retweet(OwnAuthor(arg.node),
                      _parse_tweet(arg.node.legacy.retweeted_status_result.result).val)
              ELSE IF Has(arg.node, "quoted_status_result")
              THEN out.val = QuoteTweet(OwnAuthor(arg.node),
                      arg.node.legacy.full_text,
                      arg.node.legacy.display_text_range,
                      _parse_tweet(arg.node.quoted_status_result.result).val)
              ELSE out.val = PlainTweet(OwnAuthor(arg.node),
                      arg.node.legacy.full_text,
                      arg.node.legacy.display_text_range)

\* a node of Carol's with both retweeted_status_result (a tweet of Alice's)
\* and quoted_status_result (a tweet of Bob's) was decoded to Carol's Retweet
\* of Alice's tweet
C9_Witness ==
    /\ phase = "done"
    /\ out.ok
    /\ out.val.kind = "Retweet"
    /\ Has(arg.node, "quoted_status_result")
    /\ Has(arg.node.legacy, "retweeted_status_result")
    /\ out.val.author.handle = "carol"
    /\ out.val.child.kind = "PlainTweet"
    /\ out.val.child.author.handle = "alice"

----------------------------------------------------------------------------
(* What the claims about _parse_timeline say, under SpecTimeline. *)

Adds == SelectSeq(Instrs, IsAdd)
Pins == SelectSeq(Instrs, IsPin)
LastAdd == Adds[Len(Adds)]

\* an item that decodes as a tweet entry, an item that decodes as a cursor
TweetShaped(item) ==
    /\ Has(item, "content") /\ Has(item.content, "itemContent")
    /\ Decodable(item.content.itemContent.tweet_results.result)
CursorShaped(item) == Has(item, "content") /\ Has(item.content, "value")

\* the text of the tweet an item holds
TextOf(item) == item.content.itemContent.tweet_results.result.legacy.full_text

EntriesOf(page) == page[1]
StatusEntries(page) == SelectSeq(page[1], LAMBDA e : e.type = STATUS_TWEET)
PinnedEntries(page) == SelectSeq(page[1], LAMBDA e : e.type = PINNED_TWEET)

\* every item at a tweet's place decodes as a tweet
TweetsDecodable ==
    /\ \A i \in 1..Len(Adds) :
          \A j \in 1..(Len(Adds[i].entries) - 2) :
              TweetShaped(Adds[i].entries[j])
    /\ arg.pinned => \A i \in 1..Len(Pins) : TweetShaped(Pins[i].entry)

\* the last TimelineAddEntries ends with two cursors
CursorsDecodable ==
    /\ Adds # <<>>
    /\ Len(LastAdd.entries) >= 2
    /\ \A j \in {Len(LastAdd.entries) - 1, Len(LastAdd.entries)} :
          CursorShaped(LastAdd.entries[j])

RECURSIVE SumTweets(_)
SumTweets(adds) ==
    IF adds = <<>> THEN 0
    ELSE (IF Len(Head(adds).entries) > 2 THEN Len(Head(adds).entries) - 2 ELSE 0)
         + SumTweets(Tail(adds))

(* C2, as amended: on an instruction list with exactly one                  *)
(* TimelineAddEntries instruction, of N items, _parse_timeline returns a    *)
(* page only if N >= 2; the page then has exactly N-2 STATUS entries, the   *)
(* i-th built from the i-th item, its cursor_top and cursor_bottom are the  *)
(* content.value of items N-1 and N, and no entry is built from those two.  *)
(* It returns a page whenever N >= 2, the first N-2 items and the requested *)
(* pin entries decode as tweets and the last two items as cursors.          *)
C2_StatusEntriesAreAllButLastTwo ==
    (phase = "done" /\ HasTimeline /\ Len(Adds) = 1) =>
        /\ out.ok =>
              /\ Len(LastAdd.entries) >= 2
              /\ Len(StatusEntries(out.val)) = Len(LastAdd.entries) - 2
              /\ \A i \in 1..(Len(LastAdd.entries) - 2) :
                    StatusEntries(out.val)[i].tweet.content = TextOf(LastAdd.entries[i])
              /\ out.val[2] = LastAdd.entries[Len(LastAdd.entries) - 1].content.value
              /\ out.val[3] = LastAdd.entries[Len(LastAdd.entries)].content.value
              /\ \A i \in 1..Len(out.val[1]) :
                    out.val[1][i].tweet.content \notin {out.val[2], out.val[3]}
        /\ (TweetsDecodable /\ CursorsDecodable) => out.ok

\* a page of two STATUS entries was decoded from an instruction list that
\* also pins an entry
C2_Witness ==
    /\ phase = "done" /\ HasTimeline /\ Len(Adds) = 1
    /\ out.ok
    /\ Len(LastAdd.entries) = 4
    /\ Len(StatusEntries(out.val)) = 2
    /\ Len(PinnedEntries(out.val)) = 1

(* C2, as claimed: for every N >= 0, an instruction list with exactly one   *)
(* TimelineAddEntries of N items, whose items decode, gives exactly N-2     *)
(* STATUS entries.                                                          *)
C2_AsClaimed ==
    (phase = "done" /\ HasTimeline /\ Len(Adds) = 1 /\ TweetsDecodable
        /\ \A j \in 1..Len(LastAdd.entries) :
              j > Len(LastAdd.entries) - 2 => CursorShaped(LastAdd.entries[j])) =>
        /\ out.ok
        /\ Len(StatusEntries(out.val)) = Len(LastAdd.entries) - 2

\* the document without its TimelinePinEntry instructions
WithoutPins(data) ==
    IF InstructionsOf(data).ok
    THEN Envelope(SelectSeq(InstructionsOf(data).val, LAMBDA i : ~IsPin(i)))
    ELSE data

(* C3: with pinned = False, no entry of the page is PINNED, and the result  *)
(* (the page, or the exception) is that of the same document with its       *)
(* TimelinePinEntry instructions removed.                                   *)
C3_UnpinnedIgnoresPinEntries ==
    (phase = "done" /\ ~arg.pinned) =>
        /\ out.ok => PinnedEntries(out.val) = <<>>
        /\ out = _parse_timeline(WithoutPins(arg.data), FALSE)

\* a page was decoded, unpinned, from a list that pins a decodable entry
\* before its entries
C3_Witness ==
    /\ phase = "done" /\ ~arg.pinned /\ HasTimeline
    /\ out.ok
    /\ Len(out.val[1]) >= 1
    /\ Len(Instrs) >= 2
    /\ IsPin(Instrs[1]) /\ TweetShaped(Instrs[1].entry)

(* C4: _parse_timeline raises when the instruction list has no              *)
(* TimelineAddEntries instruction (an empty list, or one of other           *)
(* instructions only), and when one of the two cursor entries, the last two *)
(* items of the last TimelineAddEntries, lacks content.value or is missing; *)
(* a page it returns has both cursors, which are those two values.  The     *)
(* exception is the TypeError of None[0], or the KeyError or IndexError of  *)
(* the missing key or item.                                                 *)
C4_NoPageWithoutBothCursors ==
    (phase = "done" /\ HasTimeline) =>
        /\ Adds = <<>> =>
              /\ ~out.ok
              /\ out.exc \in {"TypeError", "KeyError"}
              /\ ~arg.pinned => out.exc = "TypeError"
        /\ ~CursorsDecodable => ~out.ok
        /\ out.ok =>
              /\ out.val[2] = LastAdd.entries[Len(LastAdd.entries) - 1].content.value
              /\ out.val[3] = LastAdd.entries[Len(LastAdd.entries)].content.value

\* a list holding only a TimelinePinEntry, whose entry decodes, was refused
C4_Witness ==
    /\ phase = "done" /\ HasTimeline /\ arg.pinned
    /\ Adds = <<>>
    /\ Pins # <<>> /\ TweetShaped(Pins[1].entry)
    /\ ~out.ok /\ out.exc = "TypeError"

(* C6: _parse_timeline returns a page only if every item of every           *)
(* TimelineAddEntries but its last two, every pin entry when pinned, and    *)
(* the two cursors all decode, and the page then holds one entry for each   *)
(* of them; if any of them fails to decode it raises, and what it raises    *)
(* carries no entries and no cursors.                                       *)
C6_PageIsAllOrNothing ==
    (phase = "done" /\ HasTimeline) =>
        /\ out.ok = (TweetsDecodable /\ CursorsDecodable)
        /\ out.ok =>
              /\ Len(StatusEntries(out.val)) = SumTweets(Adds)
              /\ Len(PinnedEntries(out.val)) = (IF arg.pinned THEN Len(Pins) ELSE 0)
        /\ ~out.ok => DOMAIN out = {"ok", "exc", "args"}

\* the call raised after a pinned entry had been decoded: a later tweet
\* item does not decode
C6_Witness ==
    /\ phase = "done" /\ HasTimeline /\ arg.pinned
    /\ ~out.ok
    /\ Len(Instrs) = 2
    /\ IsPin(Instrs[1]) /\ TweetShaped(Instrs[1].entry)
    /\ IsAdd(Instrs[2]) /\ Len(Instrs[2].entries) = 3
    /\ ~TweetShaped(Instrs[2].entries[1])
    /\ CursorsDecodable

----------------------------------------------------------------------------
(* What the claims about timeline say, under SpecBuild. *)

\* d[k] on a dict given as its pairs
HasKey(d, k) == \E i \in 1..Len(d) : d[i][1] = k
Lookup(d, k) == d[CHOOSE i \in 1..Len(d) : d[i][1] = k][2]

\* the variables that were encoded into the request
VariablesOf(request) == request.params[1][2].json

(* C8, as claimed: the variables have the key cursor exactly when the       *)
(* caller gave a cursor, with the value given, and count is the count given *)
(* or 40 when none was given; for every value, the empty cursor and the     *)
(* count 0 included.                                                        *)
C8_AsClaimed ==
    phase = "done" =>
        /\ HasKey(VariablesOf(out), "cursor") = arg.cursor.some
        /\ arg.cursor.some => Lookup(VariablesOf(out), "cursor") = arg.cursor.v
        /\ Lookup(VariablesOf(out), "count") =
              (IF arg.count.some THEN arg.count.v ELSE DefaultCount)

----------------------------------------------------------------------------
(* What the claims about ClientSession say, under Spec. *)

\* the awaits of the two reads
Reads == {"get_user_by_handle", "get_user_by_handle_json",
          "get_timeline", "get_timeline_json"}
Range(f) == {f[i] : i \in DOMAIN f}

(* C1, as claimed: a read called before an open() has succeeded hands no    *)
(* request to the transport, so that while a read awaits its response or    *)
(* the body of it the session is ready.                                     *)
C1_AsClaimed == \A id \in 1..calls : pc[id] \in Reads => ready

(* C5, as claimed: when the status of a response is not 200 the call ends   *)
(* with an exception that carries the status, and the body of the response  *)
(* was not read.                                                            *)
C5_AsClaimed ==
    (outcome # Empty /\ outcome.resp # Empty /\ outcome.resp.status # 200) =>
        /\ ~outcome.resp.read
        /\ ~outcome.result.ok
        /\ outcome.result.args = <<outcome.resp.status>>

(* C10, as claimed: over any sequence of operations on a session the        *)
(* credential headers are written once.                                     *)
C10_AsClaimed == writes <= 1

\* call id moves from one await to another, or to its end, in the step
Moves(id, from, to) == id \in 1..calls /\ pc[id] = from /\ pc'[id] = to
\* call id comes to the await in the step
Reaches(id, to) == pc'[id] = to /\ (id \in 1..calls => pc[id] # to)
\* the open() calls' awaits
OpenAwaits == {"open_index", "open_index_text", "open_app", "open_app_text"}

(* C10, as amended: the credential headers are written only by open(), once *)
(* by each open() that succeeds and as its last step: after the first       *)
(* response had status 200 and gave the script URL and the guest token,     *)
(* the second request went to that URL, and its response had status 200 and *)
(* holds the bearer token; the headers written are made of that token and   *)
(* of that guest token.  An open() that fails, and the reads, leave the     *)
(* headers as they were; this of every open() of the session, whatever      *)
(* other calls are pending beside it.                                       *)
C10_WrittenOnlyAtTheEndOfOpen ==
    [][/\ (headers' # headers \/ writes' # writes) =>
            \E id \in 1..calls :
                /\ Moves(id, "open_app_text", "done")
                /\ outcome'.id = id /\ outcome'.op = "open" /\ outcome'.result.ok
                /\ writes' = writes + 1
                /\ outcome'.resp.status = 200 /\ outcome'.resp.read
                /\ \E q \in Range(outcome'.resp.body) :
                      /\ q.len = TokenLength /\ q.alnum
                      /\ headers' = {h \in headers :
                                       h[1] \notin {"Authorization", "x-guest-token"}}
                            \cup {<<"Authorization", <<"Bearer", q.text>>>>,
                                  <<"x-guest-token", frame[id].guest_token>>}
       /\ \A id \in 1..calls' :
            /\ (Moves(id, "open_app_text", "done") /\ outcome'.result.ok) =>
                  writes' = writes + 1
            /\ Reaches(id, "open_app_text") =>
                  /\ Moves(id, "open_app", "open_app_text")
                  /\ resp'[id] = Arrived(200)
                  /\ frame'[id] = frame[id]
            /\ Reaches(id, "open_app") =>
                  /\ Moves(id, "open_index_text", "open_app")
                  /\ resp'[id].status = 200 /\ resp'[id].read
                  /\ frame'[id].guest_token # ""
                  /\ \E e \in Range(resp'[id].body) :
                        /\ e.cookie.some /\ Has(e.cookie.v, "gt")
                        /\ e.cookie.v.gt = frame'[id].guest_token
                  /\ \E e \in Range(resp'[id].body) :
                        e.src.some /\ e.src.v = frame'[id].app_url
                  /\ sent'.url = frame'[id].app_url
            /\ Reaches(id, "open_index_text") =>
                  /\ Moves(id, "open_index", "open_index_text")
                  /\ resp'[id] = Arrived(200)
            /\ Reaches(id, "open_index") => id = calls + 1
            /\ (id \in 1..calls /\ pc[id] \in OpenAwaits /\ pc'[id] = "done"
                  /\ ~outcome'.result.ok) => headers' = headers
      ]_vars

\* the headers were written by an open(), and a second open() failed on the
\* text of its second response and left them in place
C10_Witness ==
    /\ writes = 1
    /\ calls >= 2
    /\ outcome # Empty
    /\ outcome.op = "open" /\ ~outcome.result.ok
    /\ outcome.resp # Empty /\ outcome.resp.read /\ outcome.resp.body \in Sources
    /\ \E h \in headers : h[1] = "Authorization"

====
